---- MODULE Spec2Model ----
(***************************************************************************)
(* A model of the io_uring echo server: the Slab handle table              *)
(* (src/src/slab.rs) and EchoServer::push_accepts / EchoServer::tick       *)
(* (src/src/server.rs), together with the kernel side of the ring that     *)
(* consumes submissions and posts completions.                             *)
(*                                                                         *)
(* The driver (main.rs) calls tick() in a loop.  One tick is: push_accepts *)
(* and submit_and_wait (TickSubmitOk, TickSubmitBusy, TickSubmitFatal),    *)
(* the wake-up with cq.sync (TickWake), one step per iteration of the      *)
(* completion loop (the Drain actions), and the return                     *)
(* (TickEnd).  The loop handles the entries cq.sync made visible (todo);   *)
(* the kernel keeps completing operations while the loop runs, and those   *)
(* entries wait for the next tick.  A panic (unwrap, assert) or an Err     *)
(* returned by tick() ends the process: status leaves "running" and        *)
(* nothing moves any more.  The operations outstanding are bounded by the  *)
(* capacity plus MaxFds, so the completion queue never fills.              *)
(*                                                                         *)
(* Spec is the server with every interleaving of driver and kernel.        *)
(* SpecLive is the server with a driver that keeps calling tick(), no      *)
(* submission error other than EBUSY and a kernel that completes what it   *)
(* is given.  SlabSpec is the Slab on its own under any sequence of insert *)
(* and mark_free, with bitmap words of a few bits so that the array spans  *)
(* several words.                                                          *)
(***************************************************************************)
EXTENDS Integers, Sequences, FiniteSets, Bags

\* ------------------------------------------------------------------------
\* Program constants
\* ------------------------------------------------------------------------

\* server.rs tick(): const EBUSY / ECONNRESET / POLLIN
EBUSY == 16

ECONNRESET == 104

POLLIN == 1

\* usize::BITS, the width of one bitmap word of the Slab, on the 64-bit
\* targets io_uring runs on
BITS == 64

\* ------------------------------------------------------------------------
\* Bounds of the model
\* ------------------------------------------------------------------------

\* The number of descriptors the kernel can hand out to accepted
\* connections before accept fails (the process's descriptor limit).
MaxFds == 2

\* The length of the receive buffer (vec![0u8; 4096] in the source, scaled).
BufLen == 2

\* The most entries the Slab grows to when it is exercised on its own.
MaxSlabLen == 6

\* ------------------------------------------------------------------------
\* Values
\* ------------------------------------------------------------------------

\* The `count` EchoServer::new is created with: a power of two (the assert
\* of new); main.rs passes CONNECTIONS = 2.
Capacities == {1, 2}

\* Option::None
None == [op |-> "None"]

\* The descriptors accept can return: 0..2 are stdio, 3 the ring, 4 the
\* listener, so connections start at 5.
ConnFds == 5..(4 + MaxFds)

\* The i-th byte the client connected on descriptor fd sends, and the
\* descriptor a byte arrived on: bytes are non-zero and tell their
\* descriptor, the fresh buffer is all zero.
PeerByte(fd, i) == 10 * fd + i

ReceivedOn(byte) == byte \div 10

\* What the client connected on descriptor fd sends in one go: a short
\* message and one that fills the receive buffer.
Messages(fd) == {<<PeerByte(fd, 0)>>, [i \in 1..BufLen |-> PeerByte(fd, i)]}

\* Errors a completion can carry (as positive errno values): ECONNRESET,
\* which tick() does not log, and EMFILE (24), which it logs.
Errnos == {ECONNRESET, 24}

\* Errors submit_and_wait can return: EBUSY and EINTR (4).
SubmitErrnos == {EBUSY, 4}

\* The Slab on its own: the word widths it is exercised with (usize::BITS
\* scaled, so that a few entries span several bitmap words) and the
\* capacities with_capacity is called with.
SlabWordBits == {2, 3}

SlabCaps == {0, 3}

\* vec![0u8; 4096].into_boxed_slice()
ZeroBuf == [i \in 1..BufLen |-> 0]

\* ------------------------------------------------------------------------
\* State
\* ------------------------------------------------------------------------

VARIABLES
    ring_size,   \* the entries of the submission queue: IoUring::new(count * 2)
    token_ops,   \* EchoServer.token_ops: the Slab of OpType
    count,       \* EchoServer.count: the accept credit
    sq,          \* the submission queue: entries pushed and not yet submitted
    inflight,    \* the operations the kernel holds, a bag of entries
    cq,          \* the completion queue, in arrival order
    pc,          \* where the driver is: "idle" between ticks, "wait" inside
                 \* submit_and_wait, "drain" inside the completion loop
    todo,        \* the completions cq.sync() made visible and not yet handled
    status,      \* "running", "err" (tick returned Err), or the panic that
                 \* ended the process
    open,        \* the connection descriptors open in the process
    submit_res,  \* what the last submit_and_wait returned: 0 or an errno
    word_bits,   \* the width of a bitmap word of the Slab: usize::BITS
    shadow,      \* the Slab on its own: for each handle insert returned, the
                 \* value last stored under it and whether it is live
    handle       \* the Slab on its own: what the last insert returned

vars ==
    <<ring_size, token_ops, count, sq, inflight, cq, pc, todo, status, open,
      submit_res, word_bits, shadow, handle>>

\* ------------------------------------------------------------------------
\* OpType
\* ------------------------------------------------------------------------

OpAccept == [op |-> "Accept"]

OpPoll(fd) == [op |-> "Poll", fd |-> fd]

OpRead(fd, buf) == [op |-> "Read", fd |-> fd, buf |-> buf]

OpWrite(fd, buf, offset, len) ==
    [op |-> "Write", fd |-> fd, buf |-> buf, offset |-> offset, len |-> len]

\* ------------------------------------------------------------------------
\* Slab: inner is the vector (index i of the source is inner[i + 1]),
\* bitmap is the vector of words, each word the set of its set bits.
\* ------------------------------------------------------------------------

get_bitmap_idx(idx) ==
    [map_idx |-> idx \div word_bits, bit_idx |-> idx % word_bits]

\* usize::trailing_zeros in the place of trailing_ones
trailing_zeros(w) ==
    CHOOSE n \in 0..word_bits :
        /\ \A i \in 0..(n - 1) : i \notin w
        /\ (n = word_bits \/ n \in w)

\* usize::trailing_ones
trailing_ones(w) ==
    CHOOSE n \in 0..word_bits :
        /\ \A i \in 0..(n - 1) : i \in w
        /\ (n = word_bits \/ n \notin w)

with_capacity(cap) ==
    [inner |-> <<>>, bitmap |-> [i \in 1..(cap \div word_bits + 1) |-> {}]]

\* mark_free with the mask not inverted: bitmap[map_idx] &= 1 << bit_idx
mark_free_unmasked(s, idx) ==
    LET b == get_bitmap_idx(idx)
    IN  [s EXCEPT !.bitmap[b.map_idx + 1] = @ \cap {b.bit_idx}]

\* mark_free with a mask one bit too wide: it clears the bit below as well
mark_free_wide(s, idx) ==
    LET b == get_bitmap_idx(idx)
    IN  [s EXCEPT !.bitmap[b.map_idx + 1] = @ \ {b.bit_idx, b.bit_idx - 1}]

mark_free(s, idx) ==
    LET b == get_bitmap_idx(idx)
    IN  [s EXCEPT !.bitmap[b.map_idx + 1] = @ \ {b.bit_idx}]

mark_vacant(s, idx) ==
    LET b == get_bitmap_idx(idx)
    IN  [s EXCEPT !.bitmap[b.map_idx + 1] = @ \cup {b.bit_idx}]

\* get_free looking at the first word only
get_free_word0(s) ==
    LET idx == trailing_ones(s.bitmap[1])
    IN  IF idx # word_bits /\ idx < Len(s.inner)
        THEN [op |-> "Some", idx |-> idx]
        ELSE None

\* The first word that is not all ones gives the candidate; a candidate past
\* the end of inner is not allocated.
get_free(s) ==
    LET words == {i \in DOMAIN s.bitmap :
                     trailing_ones(s.bitmap[i]) # word_bits}
    IN  IF words = {} THEN None
        ELSE LET i   == CHOOSE j \in words : \A k \in words : j <= k
                 idx == (i - 1) * word_bits + trailing_ones(s.bitmap[i])
             IN  IF idx < Len(s.inner) THEN [op |-> "Some", idx |-> idx]
                 ELSE None

\* insert returns the slab and the index
insert(s, element) ==
    LET free == get_free(s)
    IN  IF free # None
        THEN [slab |-> mark_vacant([s EXCEPT !.inner[free.idx + 1] = element],
                                   free.idx),
              idx  |-> free.idx]
        ELSE LET idx  == Len(s.inner)
                 grow == [inner  |-> Append(s.inner, element),
                          bitmap |-> IF idx = Len(s.bitmap) * word_bits
                                     THEN Append(s.bitmap, {0})
                                     ELSE s.bitmap]
             IN  [slab |-> mark_vacant(grow, idx), idx |-> idx]

\* assert!(idx < self.inner.len()) of is_vacant
in_bounds(s, idx) == idx < Len(s.inner)

\* is_vacant true when the bit is clear
is_vacant_clear(s, idx) ==
    LET b == get_bitmap_idx(idx)
    IN  b.bit_idx \notin s.bitmap[b.map_idx + 1]

\* true when the bit is set, that is when the entry is occupied
is_vacant(s, idx) ==
    LET b == get_bitmap_idx(idx)
    IN  b.bit_idx \in s.bitmap[b.map_idx + 1]

\* get / get_mut within bounds: Some(&inner[idx]) or None
get(s, idx) == IF is_vacant(s, idx) THEN s.inner[idx + 1] ELSE None

\* *token = value, through the reference get_mut returned
set(s, idx, value) == [s EXCEPT !.inner[idx + 1] = value]

\* The handles that are occupied
Occupied(s) == {h \in 0..(Len(s.inner) - 1) : is_vacant(s, h)}

\* ------------------------------------------------------------------------
\* The ring: submission queue entries and completion queue entries
\* ------------------------------------------------------------------------

\* opcode::Accept::new(self.fd, null, null).build().user_data(0); the
\* listener is descriptor 4
AcceptSqe == [op |-> "Accept", fd |-> 4, user_data |-> 0, len |-> 0, buf |-> <<>>]

\* opcode::PollAdd::new(Fd(fd), POLLIN).build().user_data(usr)
PollSqe(fd, usr) ==
    [op |-> "PollAdd", fd |-> fd, user_data |-> usr, len |-> 0, buf |-> <<>>]

\* opcode::Recv::new(Fd(fd), buf.as_mut_ptr(), buf.len()).build().user_data(usr):
\* the kernel fills the buffer the state at usr owns
RecvSqe(fd, buf, usr) ==
    [op |-> "Recv", fd |-> fd, user_data |-> usr, len |-> Len(buf), buf |-> <<>>]

\* opcode::Send::new(Fd(fd), buf.as_ptr(), buf.len()).build().user_data(usr):
\* buf is what the pointer points to, len the number of bytes handed over
SendSqe(fd, buf, usr) ==
    [op |-> "Send", fd |-> fd, user_data |-> usr, len |-> Len(buf), buf |-> buf]

\* A completion: result and user_data are what tick() reads; op and fd
\* record the operation it completes and are read by no action
Cqe(e, res) ==
    [res |-> res, user_data |-> e.user_data, op |-> e.op, fd |-> e.fd]

\* SubmissionQueue::push: Err when the queue is full
sq_push(q, e) ==
    IF Len(q) < ring_size THEN [ok |-> TRUE, sq |-> Append(q, e)]
    ELSE [ok |-> FALSE, sq |-> q]

\* The entries of a queue as a bag
SeqToBag(q) ==
    [e \in {q[i] : i \in DOMAIN q} |-> Cardinality({i \in DOMAIN q : q[i] = e})]

\* EchoServer::new
Init ==
    /\ word_bits = BITS
    /\ shadow = <<>>
    /\ handle = None
    /\ count \in Capacities
    /\ ring_size = count * 2
    /\ token_ops = insert(with_capacity(ring_size), OpAccept).slab
    /\ sq = <<>>
    /\ inflight = EmptyBag
    /\ cq = <<>>
    /\ pc = "idle"
    /\ todo = 0
    /\ status = "running"
    /\ open = {}
    /\ submit_res = 0

\* ------------------------------------------------------------------------
\* EchoServer::push_accepts
\* ------------------------------------------------------------------------

\* push_accepts without `self.count -= 1`
push_accepts_keep(cnt, q) ==
    LET r == sq_push(q, AcceptSqe)
    IN  IF cnt > 0 /\ r.ok THEN [count |-> cnt, sq |-> r.sq]
        ELSE [count |-> cnt, sq |-> q]

RECURSIVE push_accepts(_, _)
push_accepts(cnt, q) ==
    IF cnt > 0
    THEN LET r == sq_push(q, AcceptSqe)
         IN  IF r.ok THEN push_accepts(cnt - 1, r.sq)
             ELSE [count |-> cnt, sq |-> q]
    ELSE [count |-> cnt, sq |-> q]

\* ------------------------------------------------------------------------
\* EchoServer::tick, up to the completion loop
\* ------------------------------------------------------------------------

\* Some(EBUSY) => (): the submission errors tick() swallows
swallowed(errno) == errno = EBUSY

\* push_accepts, then submit_and_wait(1) accepts the whole queue and blocks
TickSubmitOk ==
    /\ status = "running" /\ pc = "idle"
    /\ LET pa == push_accepts(count, sq)
       IN  /\ count' = pa.count
           /\ inflight' = inflight (+) SeqToBag(pa.sq)
    /\ sq' = <<>>
    /\ submit_res' = 0
    /\ pc' = "wait"
    /\ UNCHANGED <<ring_size, token_ops, cq, todo, status, open>>
    /\ UNCHANGED <<word_bits, shadow, handle>>

\* submit_and_wait(1) returns once a completion is there; cq.sync()
TickWake ==
    /\ status = "running" /\ pc = "wait"
    /\ Len(cq) >= 1
    /\ pc' = "drain"
    /\ todo' = Len(cq)
    /\ UNCHANGED <<ring_size, token_ops, count, sq, inflight, cq, status, open, submit_res>>
    /\ UNCHANGED <<word_bits, shadow, handle>>

\* push_accepts, then submit_and_wait(1) fails with an error tick() swallows:
\* nothing is submitted, cq.sync(), on to the loop
TickSubmitBusy ==
    /\ status = "running" /\ pc = "idle"
    /\ \E errno \in SubmitErrnos :
        /\ swallowed(errno)
        /\ submit_res' = errno
    /\ LET pa == push_accepts(count, sq)
       IN  /\ count' = pa.count
           /\ sq' = pa.sq
    /\ pc' = "drain"
    /\ todo' = Len(cq)
    /\ UNCHANGED <<ring_size, token_ops, inflight, cq, status, open>>
    /\ UNCHANGED <<word_bits, shadow, handle>>

\* push_accepts, then submit_and_wait(1) fails with any other error:
\* Err(io::ErrorKind::Other)?
TickSubmitFatal ==
    /\ status = "running" /\ pc = "idle"
    /\ \E errno \in SubmitErrnos :
        /\ ~swallowed(errno)
        /\ submit_res' = errno
    /\ LET pa == push_accepts(count, sq)
       IN  /\ count' = pa.count
           /\ sq' = pa.sq
    /\ status' = "err"
    /\ UNCHANGED <<ring_size, token_ops, inflight, cq, pc, todo, open>>
    /\ UNCHANGED <<word_bits, shadow, handle>>

\* ------------------------------------------------------------------------
\* The kernel: an operation in flight completes
\* ------------------------------------------------------------------------

InFlight(kind) == {e \in BagToSet(inflight) : e.op = kind}

Complete(e, res) ==
    /\ inflight' = inflight (-) SetToBag({e})
    /\ cq' = Append(cq, Cqe(e, res))

\* accept returns the lowest descriptor that is free
KernelAccept ==
    /\ status = "running"
    /\ open # ConnFds
    /\ \E e \in InFlight("Accept") :
        LET fd == CHOOSE f \in ConnFds \ open : \A g \in ConnFds \ open : f <= g
        IN  /\ Complete(e, fd)
            /\ open' = open \cup {fd}
    /\ UNCHANGED <<ring_size, token_ops, count, sq, pc, todo, status, submit_res>>
    /\ UNCHANGED <<word_bits, shadow, handle>>

\* the descriptor polled is readable
KernelPoll ==
    /\ status = "running"
    /\ \E e \in InFlight("PollAdd") : Complete(e, POLLIN)
    /\ UNCHANGED <<ring_size, token_ops, count, sq, pc, todo, status, open, submit_res>>
    /\ UNCHANGED <<word_bits, shadow, handle>>

\* recv copies a message of the peer into the buffer the entry points to,
\* which the Read state at the entry's handle owns
KernelRecv ==
    /\ status = "running"
    /\ \E e \in InFlight("Recv") :
        /\ in_bounds(token_ops, e.user_data)
        /\ token_ops.inner[e.user_data + 1].op = "Read"
        /\ \E m \in Messages(e.fd) :
            /\ Len(m) <= e.len
            /\ LET st  == token_ops.inner[e.user_data + 1]
                   buf == [i \in 1..Len(st.buf) |->
                              IF i <= Len(m) THEN m[i] ELSE st.buf[i]]
               IN  token_ops' = set(token_ops, e.user_data, OpRead(st.fd, buf))
            /\ Complete(e, Len(m))
    /\ UNCHANGED <<ring_size, count, sq, pc, todo, status, open, submit_res>>
    /\ UNCHANGED <<word_bits, shadow, handle>>

\* recv returns 0: the peer closed
KernelRecvEof ==
    /\ status = "running"
    /\ \E e \in InFlight("Recv") : Complete(e, 0)
    /\ UNCHANGED <<ring_size, token_ops, count, sq, pc, todo, status, open, submit_res>>
    /\ UNCHANGED <<word_bits, shadow, handle>>

\* send takes some or all of the bytes handed to it
KernelSend ==
    /\ status = "running"
    /\ \E e \in InFlight("Send") :
        \E n \in 1..e.len : Complete(e, n)
    /\ UNCHANGED <<ring_size, token_ops, count, sq, pc, todo, status, open, submit_res>>
    /\ UNCHANGED <<word_bits, shadow, handle>>

\* any operation fails: a negative result
KernelError ==
    /\ status = "running"
    /\ \E e \in BagToSet(inflight) :
        \E errno \in Errnos : Complete(e, -errno)
    /\ UNCHANGED <<ring_size, token_ops, count, sq, pc, todo, status, open, submit_res>>
    /\ UNCHANGED <<word_bits, shadow, handle>>

\* ------------------------------------------------------------------------
\* EchoServer::tick, the completion loop: one action per arm, each handling
\* the completion at the head of the queue
\* ------------------------------------------------------------------------

\* let ret = cqe.result(); let usr = cqe.user_data()
ret == Head(cq).res

usr == Head(cq).user_data

\* the loop has a completion to handle
Draining == status = "running" /\ pc = "drain" /\ todo > 0

\* the loop took the entry
Taken == cq' = Tail(cq) /\ todo' = todo - 1

\* the descriptors closed by close(fd) on a state: Poll, Read and Write carry one
close_state(fds, optype) ==
    IF optype.op \in {"Poll", "Read", "Write"} THEN fds \ {optype.fd} ELSE fds

\* unsafe { sq.push(&entry).unwrap(); }
PushUnwrap(entry) ==
    LET r == sq_push(sq, entry)
    IN  /\ sq' = r.sq
        /\ status' = IF r.ok THEN status ELSE "panic_push"

\* if ret < 0 { ... token_ops.get(usr).unwrap() ... close(*fd) ...
\* token_ops.mark_free(usr); continue; }
DrainError ==
    /\ Draining /\ ret < 0
    /\ in_bounds(token_ops, usr) /\ get(token_ops, usr) # None
    /\ open' = close_state(open, get(token_ops, usr))
    /\ token_ops' = mark_free(token_ops, usr)
    /\ Taken
    /\ UNCHANGED <<ring_size, count, sq, inflight, pc, status, submit_res>>
    /\ UNCHANGED <<word_bits, shadow, handle>>

\* if ret < 0 { ... token_ops.get(usr).unwrap() }: the assert of is_vacant
\* fails, or unwrap meets None
DrainErrorPanic ==
    /\ Draining /\ ret < 0
    /\ ~(in_bounds(token_ops, usr) /\ get(token_ops, usr) # None)
    /\ status' = IF in_bounds(token_ops, usr) THEN "panic_unwrap"
                 ELSE "panic_assert"
    /\ Taken
    /\ UNCHANGED <<ring_size, token_ops, count, sq, inflight, pc, open, submit_res>>
    /\ UNCHANGED <<word_bits, shadow, handle>>

\* None => { eprintln!("user_data {usr} not registered."); continue; }
DrainUnregistered ==
    /\ Draining /\ ret >= 0
    /\ in_bounds(token_ops, usr) /\ get(token_ops, usr) = None
    /\ Taken
    /\ UNCHANGED <<ring_size, token_ops, count, sq, inflight, pc, status, open, submit_res>>
    /\ UNCHANGED <<word_bits, shadow, handle>>

\* the state the completion is dispatched on, for a non-negative result
Dispatch(kind) ==
    /\ Draining /\ ret >= 0
    /\ in_bounds(token_ops, usr)
    /\ get(token_ops, usr).op = kind

\* OpType::Accept => insert Poll { fd: ret }, push a poll, count += 1
DrainAccept ==
    /\ Dispatch("Accept")
    /\ LET ins == insert(token_ops, OpPoll(ret))
       IN  /\ token_ops' = ins.slab
           /\ PushUnwrap(PollSqe(ret, ins.idx))
    /\ count' = IF status' = "running" THEN count + 1 ELSE count
    /\ Taken
    /\ UNCHANGED <<ring_size, inflight, pc, open, submit_res>>
    /\ UNCHANGED <<word_bits, shadow, handle>>

\* OpType::Poll { fd } => *token = Read { fd, buf }, push a recv
DrainPoll ==
    /\ Dispatch("Poll")
    /\ LET fd == get(token_ops, usr).fd
       IN  /\ token_ops' = set(token_ops, usr, OpRead(fd, ZeroBuf))
           /\ PushUnwrap(RecvSqe(fd, ZeroBuf, usr))
    /\ Taken
    /\ UNCHANGED <<ring_size, count, inflight, pc, open, submit_res>>
    /\ UNCHANGED <<word_bits, shadow, handle>>

\* the Read arm without the `continue` after mark_free and close: it goes
\* on to store Write and to push a send
DrainReadEofGoesOn ==
    /\ Dispatch("Read") /\ ret = 0
    /\ LET st == get(token_ops, usr)
       IN  /\ token_ops' = set(mark_free(token_ops, usr), usr,
                               OpWrite(st.fd, st.buf, 0, ret))
           /\ PushUnwrap(SendSqe(st.fd, st.buf, usr))
    /\ open' = close_state(open, get(token_ops, usr))
    /\ Taken
    /\ UNCHANGED <<ring_size, count, inflight, pc, submit_res>>
    /\ UNCHANGED <<word_bits, shadow, handle>>

\* OpType::Read, ret == 0 => mark_free(usr), close(fd), continue
DrainReadEof ==
    /\ Dispatch("Read") /\ ret = 0
    /\ token_ops' = mark_free(token_ops, usr)
    /\ open' = close_state(open, get(token_ops, usr))
    /\ Taken
    /\ UNCHANGED <<ring_size, count, sq, inflight, pc, status, submit_res>>
    /\ UNCHANGED <<word_bits, shadow, handle>>

\* OpType::Read { fd, buf } => *token = Write { fd, buf, offset: 0, len: ret },
\* push a send
DrainRead ==
    /\ Dispatch("Read") /\ ret > 0
    /\ LET st == get(token_ops, usr)
       IN  /\ token_ops' = set(token_ops, usr, OpWrite(st.fd, st.buf, 0, ret))
           /\ PushUnwrap(SendSqe(st.fd, st.buf, usr))
    /\ Taken
    /\ UNCHANGED <<ring_size, count, inflight, pc, open, submit_res>>
    /\ UNCHANGED <<word_bits, shadow, handle>>

\* the Write arm going straight back to Read when the send is complete
DrainWriteDoneRecv ==
    /\ Dispatch("Write")
    /\ LET st == get(token_ops, usr)
       IN  /\ st.offset + ret >= st.len
           /\ token_ops' = set(token_ops, usr, OpRead(st.fd, ZeroBuf))
           /\ PushUnwrap(RecvSqe(st.fd, ZeroBuf, usr))
    /\ Taken
    /\ UNCHANGED <<ring_size, count, inflight, pc, open, submit_res>>
    /\ UNCHANGED <<word_bits, shadow, handle>>

\* OpType::Write, offset + write_len >= len => *token = Poll { fd }, push a poll
DrainWriteDone ==
    /\ Dispatch("Write")
    /\ LET st == get(token_ops, usr)
       IN  /\ st.offset + ret >= st.len
           /\ token_ops' = set(token_ops, usr, OpPoll(st.fd))
           /\ PushUnwrap(PollSqe(st.fd, usr))
    /\ Taken
    /\ UNCHANGED <<ring_size, count, inflight, pc, open, submit_res>>
    /\ UNCHANGED <<word_bits, shadow, handle>>

\* OpType::Write otherwise => *token = Write { fd, buf, offset, len } with
\* the offset it had, push a send of the whole buffer again
DrainWritePartial ==
    /\ Dispatch("Write")
    /\ LET st == get(token_ops, usr)
       IN  /\ st.offset + ret < st.len
           /\ token_ops' = set(token_ops, usr,
                               OpWrite(st.fd, st.buf, st.offset, st.len))
           /\ PushUnwrap(SendSqe(st.fd, st.buf, usr))
    /\ Taken
    /\ UNCHANGED <<ring_size, count, inflight, pc, open, submit_res>>
    /\ UNCHANGED <<word_bits, shadow, handle>>

\* the loop is over: Ok(())
TickEnd ==
    /\ status = "running" /\ pc = "drain" /\ todo = 0
    /\ pc' = "idle"
    /\ submit_res' = 0
    /\ UNCHANGED <<ring_size, token_ops, count, sq, inflight, cq, todo, status, open>>
    /\ UNCHANGED <<word_bits, shadow, handle>>

Next ==
    \/ TickSubmitOk
    \/ TickWake
    \/ TickSubmitBusy
    \/ TickSubmitFatal
    \/ KernelAccept
    \/ KernelPoll
    \/ KernelRecv
    \/ KernelRecvEof
    \/ KernelSend
    \/ KernelError
    \/ DrainError
    \/ DrainErrorPanic
    \/ DrainUnregistered
    \/ DrainAccept
    \/ DrainPoll
    \/ DrainReadEof
    \/ DrainRead
    \/ DrainWriteDone
    \/ DrainWritePartial
    \/ TickEnd

Spec == Init /\ [][Next]_vars

\* ------------------------------------------------------------------------
\* The Slab on its own: any sequence of insert and mark_free on a Slab made
\* by with_capacity, with a record (shadow) of what the caller was told: the
\* value stored under each handle insert returned and whether the handle
\* has been freed since.
\* ------------------------------------------------------------------------

\* the values stored: two OpType values
SlabValues == {OpAccept, OpPoll(0)}

\* Slab::with_capacity(cap); the server's variables rest
SlabInit ==
    /\ word_bits \in SlabWordBits
    /\ \E cap \in SlabCaps : token_ops = with_capacity(cap)
    /\ shadow = <<>>
    /\ handle = None
    /\ ring_size = 0
    /\ count = 0
    /\ sq = <<>>
    /\ inflight = EmptyBag
    /\ cq = <<>>
    /\ pc = "idle"
    /\ todo = 0
    /\ status = "running"
    /\ open = {}
    /\ submit_res = 0

\* let idx = slab.insert(element)
SlabInsert ==
    /\ \E element \in SlabValues :
        LET ins == insert(token_ops, element)
        IN  /\ Len(ins.slab.inner) <= MaxSlabLen
            /\ token_ops' = ins.slab
            /\ handle' = [op |-> "Some", idx |-> ins.idx]
            /\ shadow' = [h \in DOMAIN shadow \cup {ins.idx} |->
                             IF h = ins.idx
                             THEN [value |-> element, live |-> TRUE]
                             ELSE shadow[h]]
    /\ UNCHANGED <<ring_size, count, sq, inflight, cq, pc, todo, status, open,
                   submit_res, word_bits>>

\* slab.mark_free(idx), for a handle insert returned, freed already or not
SlabMarkFree ==
    /\ \E idx \in DOMAIN shadow :
        /\ token_ops' = mark_free(token_ops, idx)
        /\ shadow' = [shadow EXCEPT ![idx].live = FALSE]
    /\ handle' = None
    /\ UNCHANGED <<ring_size, count, sq, inflight, cq, pc, todo, status, open,
                   submit_res, word_bits>>

SlabNext ==
    \/ SlabInsert
    \/ SlabMarkFree

SlabSpec == SlabInit /\ [][SlabNext]_vars

\* ------------------------------------------------------------------------
\* The server under a driver that keeps calling tick() and a kernel that
\* completes what it is given
\* ------------------------------------------------------------------------

\* one step of the kernel
Kernel ==
    \/ KernelAccept
    \/ KernelPoll
    \/ KernelRecv
    \/ KernelRecvEof
    \/ KernelSend
    \/ KernelError

\* one step of tick() that does not return Err
Tick ==
    \/ TickSubmitOk
    \/ TickWake
    \/ TickSubmitBusy
    \/ DrainError
    \/ DrainErrorPanic
    \/ DrainUnregistered
    \/ DrainAccept
    \/ DrainPoll
    \/ DrainReadEof
    \/ DrainRead
    \/ DrainWriteDone
    \/ DrainWritePartial
    \/ TickEnd

\* submit_and_wait never fails with an error other than EBUSY
NextLive == Kernel \/ Tick

\* main.rs: loop { server.tick()? } keeps taking the step tick() is at; a
\* submission is not busy forever; an accept in flight completes while a
\* descriptor is left, a poll, a receive and a send in flight complete.
\* Errors may happen and need not.
Fairness ==
    /\ WF_vars(Tick)
    /\ SF_vars(TickSubmitOk)
    /\ WF_vars(KernelAccept)
    /\ WF_vars(KernelPoll)
    /\ WF_vars(KernelRecv \/ KernelRecvEof)
    /\ WF_vars(KernelSend)

SpecLive == Init /\ [][NextLive]_vars /\ Fairness

\* ------------------------------------------------------------------------
\* Properties
\* ------------------------------------------------------------------------

\* the `count` the server was created with
Capacity == ring_size \div 2

\* the loop handles the completion at the head of the queue in this step
Handles == Draining /\ todo' = todo - 1

\* the completion at the head finds its handle within the table
Registered == in_bounds(token_ops, usr) /\ get(token_ops, usr) # None

\* the handles of connections: occupied, in state Poll, Read or Write
Connections ==
    {h \in Occupied(token_ops) :
        token_ops.inner[h + 1].op \in {"Poll", "Read", "Write"}}

AcceptsQueued == Cardinality({i \in DOMAIN sq : sq[i].op = "Accept"})

AcceptsInFlight == CopiesIn(AcceptSqe, inflight)

\* completions of accepts: the only operations tagged 0
AcceptsCompleted == Cardinality({i \in DOMAIN cq : cq[i].user_data = 0})

\* the operations outstanding for handle h: queued, in flight, or completed
\* and not yet handled
Outstanding(h) ==
    \/ \E i \in DOMAIN sq : sq[i].user_data = h
    \/ \E e \in BagToSet(inflight) : e.user_data = h
    \/ \E i \in DOMAIN cq : cq[i].user_data = h

\* C1: the send that tick() submits for a receive completion of n >= 1 bytes
\* is on the connection's descriptor, hands over exactly n bytes, and they
\* are the n bytes received.
C1_EchoExactBytes ==
    [][(Handles /\ Registered /\ ret > 0
            /\ get(token_ops, usr).op = "Read" /\ Len(sq') = Len(sq) + 1)
        => LET st == get(token_ops, usr)
               e  == sq'[Len(sq')]
           IN  /\ e.op = "Send"
               /\ e.fd = st.fd
               /\ e.user_data = usr
               /\ e.len = ret
               /\ e.buf = SubSeq(st.buf, 1, ret)]_vars

C3_CreditExact ==
    (status = "running" /\ pc = "idle")
        => count + AcceptsQueued + AcceptsInFlight + AcceptsCompleted = Capacity

\* C4: a failed Accept completion only logs: handling it leaves the handle
\* table unchanged (handle 0 still occupied, state Accept) and closes nothing.
C4_FailedAcceptOnlyLogs ==
    [][(Handles /\ ret < 0 /\ usr = 0 /\ Registered
            /\ get(token_ops, 0) = OpAccept)
        => /\ token_ops' = token_ops
           /\ open' = open
           /\ status' = "running"]_vars

\* C5: a completion whose handle is within the table and free is skipped,
\* whatever its result: the table is unchanged and the loop goes on.
C5_StaleSkipped ==
    [][(Handles /\ in_bounds(token_ops, usr) /\ get(token_ops, usr) = None)
        => /\ status' = "running"
           /\ token_ops' = token_ops
           /\ count' = count /\ sq' = sq /\ open' = open]_vars

\* the completion at the head tears its connection down: a negative result,
\* or a zero-length read, for a handle in state Poll, Read or Write
TearsDown ==
    /\ Handles /\ Registered
    /\ get(token_ops, usr).op \in {"Poll", "Read", "Write"}
    /\ (ret < 0 \/ (ret = 0 /\ get(token_ops, usr).op = "Read"))

\* C6: a teardown frees that handle, closes its descriptor, submits nothing,
\* and leaves every other handle and every other descriptor as it was.
C6_TeardownScoped ==
    [][TearsDown
        => /\ status' = "running"
           /\ usr \notin Occupied(token_ops')
           /\ open' = open \ {get(token_ops, usr).fd}
           /\ sq' = sq
           /\ Len(token_ops'.inner) = Len(token_ops.inner)
           /\ \A h \in 0..(Len(token_ops.inner) - 1) \ {usr} :
                /\ is_vacant(token_ops', h) = is_vacant(token_ops, h)
                /\ token_ops'.inner[h + 1] = token_ops.inner[h + 1]]_vars

\* C6 witness: a connection has been torn down (its handle is free and its
\* descriptor closed) while another connection is live and untouched.
C6_Witness ==
    /\ status = "running"
    /\ \E h \in 1..(Len(token_ops.inner) - 1) :
        /\ ~is_vacant(token_ops, h)
        /\ token_ops.inner[h + 1].fd \notin open
        /\ \E g \in Connections :
            /\ g # h
            /\ token_ops.inner[g + 1].fd \in open
            /\ Outstanding(g)

\* C7: every descriptor an accept returned whose completion was handled and
\* that is not closed is carried by exactly one occupied handle, and every
\* occupied handle other than 0 carries an open descriptor and has an
\* operation outstanding.
C7_NoLeak ==
    status = "running"
        => /\ \A fd \in open :
                \/ \E i \in DOMAIN cq : cq[i] = Cqe(AcceptSqe, fd)
                \/ Cardinality({h \in Connections :
                                   token_ops.inner[h + 1].fd = fd}) = 1
           /\ \A h \in Occupied(token_ops) \ {0} :
                /\ h \in Connections
                /\ token_ops.inner[h + 1].fd \in open
                /\ Outstanding(h)

\* C8: the number of live connection handles never exceeds C.
C8_ConnectionsBounded == Cardinality(Connections) <= Capacity

\* C9: submit-and-wait failing with EBUSY is swallowed: tick goes on to the
\* loop over the completions available, handles them and returns Ok (it
\* neither returns an error nor dies).  Any other failure makes tick return
\* an error, no completion handled and the handle table as it was.
C9_SubmitErrors ==
    /\ [][(status = "running" /\ pc = "idle" /\ submit_res' # 0)
            => IF submit_res' = EBUSY
               THEN /\ status' = "running"
                    /\ pc' = "drain"
                    /\ todo' = Len(cq)
                    /\ cq' = cq
                    /\ token_ops' = token_ops
               ELSE /\ status' = "err"
                    /\ pc' = "idle"
                    /\ cq' = cq
                    /\ todo' = todo
                    /\ open' = open
                    /\ token_ops' = token_ops]_vars
    /\ [](status = "err" => submit_res \notin {0, EBUSY})
    /\ [](submit_res = EBUSY => status = "running")

\* C10: when the loop enqueues a poll, receive or send while the submission
\* queue is full, the operation is dropped and the loop goes on.
C10_OverflowDropped ==
    [][(Handles /\ Registered /\ ret >= 0 /\ Len(sq) = ring_size
            /\ ~(ret = 0 /\ get(token_ops, usr).op = "Read"))
        => (status' = "running" /\ sq' = sq)]_vars

\* an accept is queued or in flight in a process that is alive
AcceptOutstanding ==
    status = "running" /\ AcceptsQueued + AcceptsInFlight > 0

\* C11: with tick() called for ever, no submission error other than EBUSY
\* and a kernel that completes what it is given, whatever completions fail,
\* again and again an accept is outstanding in a process that is alive.
C11_KeepsAccepting == []<>AcceptOutstanding

\* the handles the caller holds, and those it freed and did not get again
LiveHandles == {h \in DOMAIN shadow : shadow[h].live}

FreedHandles == {h \in DOMAIN shadow : ~shadow[h].live}

\* this step is a call of insert
Inserts == handle' # None

\* C12: an insert made while handles are freed returns one of the freed
\* handles and leaves the length of the array as it was, so M inserts after
\* M frees return exactly the freed handles; an insert made while no handle
\* is freed returns the previous length and the array grows by one.
C12_ReuseBeforeGrow ==
    [][Inserts
        => IF FreedHandles # {}
           THEN /\ handle'.idx \in FreedHandles
                /\ Len(token_ops'.inner) = Len(token_ops.inner)
           ELSE /\ handle'.idx = Len(token_ops.inner)
                /\ Len(token_ops'.inner) = Len(token_ops.inner) + 1]_vars

\* C12 witness: the array spans more than one bitmap word, the last insert
\* reused a handle below the top and every handle is live again: the freed
\* handles were reused without growth.
C12_Witness ==
    /\ handle # None
    /\ Len(token_ops.inner) > word_bits
    /\ handle.idx < Len(token_ops.inner) - 1
    /\ FreedHandles = {}
    /\ LiveHandles = 0..(Len(token_ops.inner) - 1)

\* C13: for every handle h below the length of the array the query does not
\* fail (h has a bitmap word) and get(h) is None exactly when h was freed
\* and not returned by insert since, and is otherwise the value last stored
\* under h; the handles below the length are those insert returned, and for
\* every handle at or beyond the length the assert of the query fails.
C13_Occupancy ==
    /\ DOMAIN shadow = 0..(Len(token_ops.inner) - 1)
    /\ \A h \in 0..(Len(token_ops.inner) - 1) :
        /\ in_bounds(token_ops, h)
        /\ get_bitmap_idx(h).map_idx + 1 \in DOMAIN token_ops.bitmap
        /\ (get(token_ops, h) = None) = (h \in FreedHandles)
        /\ h \in LiveHandles => get(token_ops, h) = shadow[h].value
    /\ \A h \in Len(token_ops.inner)..(MaxSlabLen + 1) :
        ~in_bounds(token_ops, h)

\* C13 witness: a handle in the second bitmap word was freed and returned
\* again and holds the value stored last, while a freed handle whose slot
\* still holds that same value reads as None.
C13_Witness ==
    /\ handle # None
    /\ handle.idx >= word_bits
    /\ handle.idx < Len(token_ops.inner) - 1
    /\ get(token_ops, handle.idx) = OpPoll(0)
    /\ \E h \in FreedHandles :
        /\ token_ops.inner[h + 1] = OpPoll(0)
        /\ get(token_ops, h) = None

\* C20: insert returns a handle that was not live before the call: the
\* lowest free index below the length if there is one, else the length.
\* Afterwards the handle is occupied and holds the value inserted, the
\* array grew only in the latter case, and the occupancy and the stored
\* value of every other handle are as they were.
C20_InsertNoClobber ==
    [][Inserts
        => LET h    == handle'.idx
               len  == Len(token_ops.inner)
               free == (0..(len - 1)) \ LiveHandles
           IN  /\ h \notin LiveHandles
               /\ h = IF free # {}
                      THEN CHOOSE f \in free : \A g \in free : f <= g
                      ELSE len
               /\ h \in Occupied(token_ops')
               /\ get(token_ops', h) = shadow'[h].value
               /\ Len(token_ops'.inner) = IF h = len THEN len + 1 ELSE len
               /\ \A g \in (0..(len - 1)) \ {h} :
                    /\ is_vacant(token_ops', g) = is_vacant(token_ops, g)
                    /\ token_ops'.inner[g + 1] = token_ops.inner[g + 1]]_vars

\* C20 witness: insert has just reused the lowest of several free handles,
\* in the first word, while a higher handle is still free and live entries
\* with another value sit on both sides of it.
C20_Witness ==
    /\ handle # None
    /\ get(token_ops, handle.idx) = OpAccept
    /\ \E g \in FreedHandles : g > handle.idx
    /\ \E a \in LiveHandles, b \in LiveHandles :
        /\ a < handle.idx /\ handle.idx < b
        /\ get(token_ops, a) = OpPoll(0)
        /\ get(token_ops, b) = OpPoll(0)

\* the state stored at handle h of table s: None when h is beyond the array
\* or free
StateAt(s, h) == IF in_bounds(s, h) THEN get(s, h) ELSE None

\* the operation tick() submits for a state
OpOf(kind) ==
    IF kind = "Poll" THEN "PollAdd"
    ELSE IF kind = "Read" THEN "Recv"
    ELSE IF kind = "Write" THEN "Send"
    ELSE "Accept"

\* the connection handles a table of the model can hold
ConnHandles == 1..(MaxFds + 1)

\* C14: for every connection handle: it is created in state Poll by an
\* Accept completion; while it is occupied its descriptor stays and its
\* state changes kind only Poll -> Read, Read -> Write, Write -> Poll, in
\* the step that handles the completion of the operation of the old state,
\* carried by that same handle; and an operation submitted under the handle
\* is the one of the state the handle has then.
C14_ProtocolSequence ==
    [][\A h \in ConnHandles :
        LET a == StateAt(token_ops, h)
            b == StateAt(token_ops', h)
        IN  /\ (a = None /\ b # None)
                => /\ b.op = "Poll"
                   /\ Handles /\ usr = 0 /\ Head(cq).op = "Accept"
            /\ (a # None /\ b # None)
                => /\ b.fd = a.fd
                   /\ a.op # b.op
                        => /\ <<a.op, b.op>> \in {<<"Poll", "Read">>,
                                                  <<"Read", "Write">>,
                                                  <<"Write", "Poll">>}
                           /\ Handles /\ usr = h
                           /\ Head(cq).op = OpOf(a.op)
                           /\ Head(cq).fd = a.fd
            /\ (Len(sq') = Len(sq) + 1 /\ sq'[Len(sq')].user_data = h)
                => /\ b # None
                   /\ sq'[Len(sq')].op = OpOf(b.op)
                   /\ sq'[Len(sq')].fd = b.fd
                   /\ a # None => usr = h]_vars

\* C14 witness: a connection has gone Poll -> Read -> Write and the loop is
\* at the completion of its send, which ends the message: the step back to
\* Poll is next.
C14_Witness ==
    /\ Draining
    /\ usr \in ConnHandles
    /\ Registered
    /\ get(token_ops, usr).op = "Write"
    /\ Head(cq).op = "Send"
    /\ ret >= get(token_ops, usr).len
    /\ get(token_ops, usr).fd \in open

\* the operations queued, in flight, or completed and not yet handled, as
\* records with op, fd and user_data
Operations ==
    {sq[i] : i \in DOMAIN sq} \cup BagToSet(inflight)
        \cup {cq[i] : i \in DOMAIN cq}

\* C15: handle 0 is occupied and holds Accept, every state Poll, Read or
\* Write is at a handle >= 1, every operation tagged 0 is an accept and no
\* other operation is tagged 0.
C15_HandleZeroReserved ==
    /\ in_bounds(token_ops, 0)
    /\ get(token_ops, 0) = OpAccept
    /\ \A h \in Connections : h >= 1
    /\ \A e \in Operations : (e.user_data = 0) = (e.op = "Accept")

\* how many operations tagged h are queued, in flight, or completed and not
\* yet handled
OperationsOf(h) ==
    Cardinality({i \in DOMAIN sq : sq[i].user_data = h})
    + Cardinality(UNION {{<<e, k>> : k \in 1..CopiesIn(e, inflight)} :
                            e \in {x \in BagToSet(inflight) : x.user_data = h}})
    + Cardinality({i \in DOMAIN cq : cq[i].user_data = h})

\* C16: every operation queued, in flight, or completed and not yet handled
\* that is tagged with a handle h >= 1 finds h occupied, in the state of its
\* kind (poll - Poll, receive - Read, send - Write) and on its descriptor,
\* and no handle h >= 1 has more than one such operation.
C16_OperationsMatchState ==
    /\ \A e \in Operations :
        e.user_data >= 1
            => /\ in_bounds(token_ops, e.user_data)
               /\ get(token_ops, e.user_data) # None
               /\ e.op = OpOf(get(token_ops, e.user_data).op)
               /\ e.fd = get(token_ops, e.user_data).fd
    /\ \A h \in ConnHandles : OperationsOf(h) <= 1

\* C16 witness: two connections, one with its receive in flight, the other
\* with its send completed and not yet handled, on a handle that is lower.
C16_Witness ==
    /\ status = "running"
    /\ \E g \in Connections, h \in Connections :
        /\ h < g
        /\ \E e \in InFlight("Recv") : e.user_data = g
        /\ \E i \in DOMAIN cq : cq[i].user_data = h /\ cq[i].op = "Send"
        /\ get(token_ops, g).op = "Read"
        /\ get(token_ops, h).op = "Write"

\* C17: handling a Write completion with result r where offset + r < length
\* leaves the state Write with the same descriptor, buffer and length and
\* with offset increased by r, and submits a send under the same handle.
C17_PartialSendBookkeeping ==
    [][(Handles /\ Registered /\ ret >= 0
            /\ get(token_ops, usr).op = "Write"
            /\ get(token_ops, usr).offset + ret < get(token_ops, usr).len)
        => LET st == get(token_ops, usr)
           IN  /\ StateAt(token_ops', usr)
                    = OpWrite(st.fd, st.buf, st.offset + ret, st.len)
               /\ Len(sq') = Len(sq) + 1
               /\ sq'[Len(sq')].op = "Send"
               /\ sq'[Len(sq')].fd = st.fd
               /\ sq'[Len(sq')].user_data = usr]_vars

\* handle h is a connection in state Write in a process that is alive
InWrite(h) == status = "running" /\ StateAt(token_ops, h).op = "Write"

\* C18: with tick() called for ever and every send completing, a connection
\* in state Write does not stay there: it goes back to Poll once the bytes
\* acknowledged add up to its length (or it is torn down by a failure).
C18_SendFinishes == \A h \in ConnHandles : InWrite(h) ~> ~InWrite(h)

\* the sends queued or in flight
Sends == {e \in {sq[i] : i \in DOMAIN sq} \cup BagToSet(inflight) :
             e.op = "Send"}

\* C19: every send queued or in flight hands over only bytes that were
\* received on the descriptor it targets, that descriptor is open, and it
\* is the descriptor of the connection whose state owns the buffer.
C19_Isolation ==
    \A e \in Sends :
        /\ \A i \in DOMAIN e.buf :
            e.buf[i] # 0 => ReceivedOn(e.buf[i]) = e.fd
        /\ e.fd \in open
        /\ StateAt(token_ops, e.user_data).op = "Write"
        /\ StateAt(token_ops, e.user_data).fd = e.fd
        /\ StateAt(token_ops, e.user_data).buf = e.buf

\* C19 witness: handle 1, which the first connection (descriptor 5) had, was
\* freed and is reused by a connection on another descriptor, whose echo is
\* in flight while the descriptor of the first one is open again.
C19_Witness ==
    /\ status = "running"
    /\ \E e \in Sends :
        /\ e \in BagToSet(inflight)
        /\ e.user_data = 1
        /\ e.fd # 5
        /\ \E i \in DOMAIN e.buf : e.buf[i] # 0
        /\ 5 \in open

====
